---- MODULE Spec2Model ----
(***************************************************************************)
(* Model of the eight-puzzle solver of final.py: the PuzzleState class,    *)
(* the Manhattan-distance heuristic, the A* loop of as_algo_solve with its *)
(* heapq frontier and hash-keyed visited set, and reconstruct_path.        *)
(*                                                                         *)
(* Python indices are 0-based; a board is kept as a tuple of three rows of *)
(* three cells, so the cell the code calls board[i][j] is board[i+1][j+1]. *)
(* PuzzleState objects live in an allocation table objs; a reference to an *)
(* object is its index in objs and the reference None is NoRef.            *)
(***************************************************************************)
EXTENDS Integers, Sequences, FiniteSets, TLC

VARIABLES input,   \* the board handed to PuzzleState(...) by the caller
          run,     \* one call of as_algo_solve: its locals and its outcome
          twin,    \* a second call on the same board, in another process
          ui       \* the locals of main(): the window's game state

vars == <<input, run, twin, ui>>

(* ------------------------------ bounds --------------------------------- *)

\* initial boards are taken up to this many legal moves away from the goal
MaxScramble == 8

\* a call of as_algo_solve is followed for at most this many pops
MaxPops == 30

\* a session of the window handles at most this many mouse clicks
MaxClicks == 5

(* ---------------------------- PuzzleState ------------------------------ *)

Goal == << <<0, 1, 2>>, <<3, 4, 5>>, <<6, 7, 8>> >>

NoRef == 0

NoPos == << >>

Cell(board, i, j) == board[i + 1][j + 1]

\* find_empty: the first cell holding 0 in row-major order, None without one
find_empty(board) ==
    LET hits == {p \in (0..2) \X (0..2) : Cell(board, p[1], p[2]) = 0}
    IN  IF hits = {} THEN NoPos
        ELSE CHOOSE p \in hits :
                \A q \in hits : p[1] * 3 + p[2] <= q[1] * 3 + q[2]

\* __init__: stores its arguments as they are and caches find_empty()
PuzzleState(board, moves, prev) ==
    [board |-> board, moves |-> moves, prev |-> prev,
     empty_pos |-> find_empty(board)]

is_goal(s) == s.board = Goal

\* a direction table whose last entry moves diagonally
directions_diagonal == << <<-1, 0>>, <<1, 0>>, <<0, -1>>, <<1, 1>> >>

\* the direction table with up and down exchanged
directions_reordered == << <<1, 0>>, <<-1, 0>>, <<0, -1>>, <<0, 1>> >>

directions == << <<-1, 0>>, <<1, 0>>, <<0, -1>>, <<0, 1>> >>

\* the copy of board with the cells (x, y) and (nx, ny) exchanged
SwapCells(board, x, y, nx, ny) ==
    LET cell(i, j) == IF <<i, j>> = <<x, y>> THEN Cell(board, nx, ny)
                      ELSE IF <<i, j>> = <<nx, ny>> THEN Cell(board, x, y)
                      ELSE Cell(board, i, j)
        row(i) == <<cell(i, 0), cell(i, 1), cell(i, 2)>>
    IN  <<row(0), row(1), row(2)>>

\* neighbors() with the move count left to the constructor's default
neighbors_default_moves(s, self) ==
    LET x == s.empty_pos[1]
        y == s.empty_pos[2]
        nx(k) == x + directions[k][1]
        ny(k) == y + directions[k][2]
        one(k) == IF 0 <= nx(k) /\ nx(k) < 3 /\ 0 <= ny(k) /\ ny(k) < 3
                  THEN << PuzzleState(SwapCells(s.board, x, y, nx(k), ny(k)),
                                      0, self) >>
                  ELSE << >>
    IN  one(1) \o one(2) \o one(3) \o one(4)

\* neighbors(): one new state per direction that stays on the grid, in the
\* order of directions; self is the reference of the receiver s
neighbors(s, self) ==
    LET x == s.empty_pos[1]
        y == s.empty_pos[2]
        nx(k) == x + directions[k][1]
        ny(k) == y + directions[k][2]
        one(k) == IF 0 <= nx(k) /\ nx(k) < 3 /\ 0 <= ny(k) /\ ny(k) < 3
                  THEN << PuzzleState(SwapCells(s.board, x, y, nx(k), ny(k)),
                                      s.moves + 1, self) >>
                  ELSE << >>
    IN  one(1) \o one(2) \o one(3) \o one(4)

StateEq(s, t) == s.board = t.board

StateLt(s, t) == s.moves < t.moves

\* str(board) as Python prints a list of lists of ints
StrRow(r) ==
    "[" \o ToString(r[1]) \o ", " \o ToString(r[2]) \o ", "
        \o ToString(r[3]) \o "]"

Str(board) ==
    "[" \o StrRow(board[1]) \o ", " \o StrRow(board[2]) \o ", "
        \o StrRow(board[3]) \o "]"

\* __hash__: the hash of str(board). Python salts string hashes with a seed
\* drawn per process; the 64-bit result is taken to be collision free, so a
\* hash is the pair of the seed and the string hashed.
Hash(seed, s) == <<seed, Str(s.board)>>

(* ----------------------------- heuristic ------------------------------- *)

Abs(n) == IF n < 0 THEN -n ELSE n

\* the heuristic with the empty slot counted as a tile
manhattan_distance_blank(s) ==
    LET term(i, j) ==
            LET value == Cell(s.board, i, j)
            IN  Abs(i - (value \div 3)) + Abs(j - (value % 3))
        row(i) == term(i, 0) + term(i, 1) + term(i, 2)
    IN  row(0) + row(1) + row(2)

\* the heuristic with squared instead of absolute differences
manhattan_distance_squared(s) ==
    LET term(i, j) ==
            LET value == Cell(s.board, i, j)
                dx == i - (value \div 3)
                dy == j - (value % 3)
            IN  IF value # 0 THEN dx * dx + dy * dy ELSE 0
        row(i) == term(i, 0) + term(i, 1) + term(i, 2)
    IN  row(0) + row(1) + row(2)

\* manhattan_distance: every tile but the empty slot adds its row and column
\* distance to the cell (value // 3, value % 3)
manhattan_distance(s) ==
    LET term(i, j) ==
            LET value == Cell(s.board, i, j)
            IN  IF value # 0
                THEN Abs(i - (value \div 3)) + Abs(j - (value % 3))
                ELSE 0
        row(i) == term(i, 0) + term(i, 1) + term(i, 2)
    IN  row(0) + row(1) + row(2)

(* ------------------------------- heapq --------------------------------- *)

\* A frontier entry is the tuple (cost, state): <<cost, reference>>.
\* Python compares tuples at the first position whose elements are not ==;
\* tuples that are == at every position are not less than one another.
EntryLt(objs, a, b) ==
    IF a[1] # b[1] THEN a[1] < b[1]
    ELSE IF ~StateEq(objs[a[2]], objs[b[2]])
         THEN StateLt(objs[a[2]], objs[b[2]])
         ELSE FALSE

RECURSIVE siftdown_loop(_, _, _, _, _)
siftdown_loop(objs, heap, startpos, pos, newitem) ==
    IF pos > startpos
    THEN LET parentpos == (pos - 1) \div 2
             parent == heap[parentpos + 1]
         IN  IF EntryLt(objs, newitem, parent)
             THEN siftdown_loop(objs, [heap EXCEPT ![pos + 1] = parent],
                                startpos, parentpos, newitem)
             ELSE [heap EXCEPT ![pos + 1] = newitem]
    ELSE [heap EXCEPT ![pos + 1] = newitem]

\* heapq._siftdown: move heap[pos] towards the root past larger parents
siftdown(objs, heap, startpos, pos) ==
    siftdown_loop(objs, heap, startpos, pos, heap[pos + 1])

RECURSIVE siftup_loop(_, _, _, _, _)
siftup_loop(objs, heap, startpos, pos, newitem) ==
    LET endpos == Len(heap)
        childpos == 2 * pos + 1
        rightpos == childpos + 1
        smaller == IF rightpos < endpos
                      /\ ~EntryLt(objs, heap[childpos + 1], heap[rightpos + 1])
                   THEN rightpos ELSE childpos
    IN  IF childpos < endpos
        THEN siftup_loop(objs, [heap EXCEPT ![pos + 1] = heap[smaller + 1]],
                         startpos, smaller, newitem)
        ELSE siftdown(objs, [heap EXCEPT ![pos + 1] = newitem], startpos, pos)

\* heapq._siftup: pull the smaller child up until a leaf, then sift down
siftup(objs, heap, pos) == siftup_loop(objs, heap, pos, pos, heap[pos + 1])

heappush(objs, heap, item) ==
    siftdown(objs, Append(heap, item), 0, Len(heap))

\* heappop on a non-empty heap: the item returned and the heap left
heappop(objs, heap) ==
    LET lastelt == heap[Len(heap)]
        rest == SubSeq(heap, 1, Len(heap) - 1)
    IN  IF rest # << >>
        THEN [item |-> heap[1],
              heap |-> siftup(objs, [rest EXCEPT ![1] = lastelt], 0)]
        ELSE [item |-> lastelt, heap |-> rest]

(* ------------------------- reconstruct_path ---------------------------- *)

RECURSIVE path_walk(_, _)
path_walk(objs, state) ==
    IF state = NoRef THEN << >>
    ELSE <<objs[state].board>> \o path_walk(objs, objs[state].prev)

\* path[::-1]
RECURSIVE reversed(_)
reversed(seq) ==
    IF seq = << >> THEN << >> ELSE Append(reversed(Tail(seq)), Head(seq))

\* the path left in goal-to-initial order
reconstruct_path_unreversed(objs, state) == path_walk(objs, state)

reconstruct_path(objs, state) == reversed(path_walk(objs, state))

(* --------------------------- as_algo_solve ----------------------------- *)

Pending == [kind |-> "pending", path |-> << >>]

ReturnNone == [kind |-> "None", path |-> << >>]

ReturnPath(p) == [kind |-> "path", path |-> p]

\* a process before it has built anything; seed salts its string hashes
NewRun(seed) ==
    [pc |-> "new", seed |-> seed, objs |-> << >>, initial |-> NoRef,
     pq |-> << >>, visited |-> {}, current |-> NoRef,
     pops |-> << >>, expanded |-> << >>, result |-> Pending, err |-> "none"]

\* the caller's PuzzleState(board): the constructor accepts any board
construct(r, board) ==
    [r EXCEPT !.objs = <<PuzzleState(board, 0, NoRef)>>,
              !.initial = 1,
              !.pc = "constructed"]

\* lines 86-88: the frontier seeded with (0, initial_state), visited empty
solve_start(r) ==
    [r EXCEPT !.pq = heappush(r.objs, << >>, <<0, r.initial>>),
              !.visited = {},
              !.pc = "loop"]

\* the pushes of lines 98-101 with the priority h alone, g left out
RECURSIVE push_unvisited_greedy(_, _, _, _, _, _)
push_unvisited_greedy(seed, objs, visited, heap, nbs, k) ==
    IF k > Len(nbs) THEN heap
    ELSE LET neighbor == Len(objs) - Len(nbs) + k
             cost == manhattan_distance(objs[neighbor])
         IN  push_unvisited_greedy(seed, objs, visited,
                 IF Hash(seed, objs[neighbor]) \notin visited
                 THEN heappush(objs, heap, <<cost, neighbor>>)
                 ELSE heap,
                 nbs, k + 1)

\* the pushes of lines 98-101 made in the iteration order of a set of the
\* neighbours, which follows their salted hashes: list order under seed 0,
\* the opposite order under any other seed
RECURSIVE push_unvisited_hashorder(_, _, _, _, _, _)
push_unvisited_hashorder(seed, objs, visited, heap, nbs, k) ==
    IF k > Len(nbs) THEN heap
    ELSE LET at == IF seed = 0 THEN k ELSE Len(nbs) + 1 - k
             neighbor == Len(objs) - Len(nbs) + at
             cost == objs[neighbor].moves + manhattan_distance(objs[neighbor])
         IN  push_unvisited_hashorder(seed, objs, visited,
                 IF Hash(seed, objs[neighbor]) \notin visited
                 THEN heappush(objs, heap, <<cost, neighbor>>)
                 ELSE heap,
                 nbs, k + 1)

\* the pushes of lines 98-101 with the priority g alone, h left out
RECURSIVE push_unvisited_uniform(_, _, _, _, _, _)
push_unvisited_uniform(seed, objs, visited, heap, nbs, k) ==
    IF k > Len(nbs) THEN heap
    ELSE LET neighbor == Len(objs) - Len(nbs) + k
             cost == objs[neighbor].moves
         IN  push_unvisited_uniform(seed, objs, visited,
                 IF Hash(seed, objs[neighbor]) \notin visited
                 THEN heappush(objs, heap, <<cost, neighbor>>)
                 ELSE heap,
                 nbs, k + 1)

\* lines 98-101 for the neighbours nbs of one state, whose references are
\* first + 1, first + 2, ... in objs
RECURSIVE push_unvisited(_, _, _, _, _, _)
push_unvisited(seed, objs, visited, heap, nbs, k) ==
    IF k > Len(nbs) THEN heap
    ELSE LET neighbor == Len(objs) - Len(nbs) + k
             cost == objs[neighbor].moves + manhattan_distance(objs[neighbor])
         IN  push_unvisited(seed, objs, visited,
                 IF Hash(seed, objs[neighbor]) \notin visited
                 THEN heappush(objs, heap, <<cost, neighbor>>)
                 ELSE heap,
                 nbs, k + 1)

\* the expansion with neighbors() swapping on self.board itself instead of
\* on a copy: every swap lands in the one list the receiver and all its
\* neighbours hold, and each neighbour caches the empty slot it finds when it
\* is constructed
RECURSIVE swaps_in_place(_, _, _, _)
swaps_in_place(s, self, board, k) ==
    LET x == s.empty_pos[1]
        y == s.empty_pos[2]
        nx == x + directions[k][1]
        ny == y + directions[k][2]
    IN  IF k > 4 THEN [board |-> board, made |-> << >>]
        ELSE IF 0 <= nx /\ nx < 3 /\ 0 <= ny /\ ny < 3
        THEN LET swapped == SwapCells(board, x, y, nx, ny)
                 rest == swaps_in_place(s, self, swapped, k + 1)
             IN  [board |-> rest.board,
                  made |-> <<[PuzzleState(swapped, s.moves + 1, self)
                                EXCEPT !.board = rest.board]>> \o rest.made]
        ELSE swaps_in_place(s, self, board, k + 1)

expand_in_place(r, current) ==
    LET cur == r.objs[current]
        visited == r.visited \cup {Hash(r.seed, cur)}
    IN  IF cur.empty_pos = NoPos
        THEN [r EXCEPT !.visited = visited,
                       !.pc = "crashed",
                       !.err = "TypeError"]
        ELSE LET out == swaps_in_place(cur, current, cur.board, 1)
                 objs == [r.objs EXCEPT ![current].board = out.board]
                             \o out.made
             IN  [r EXCEPT !.visited = visited,
                           !.objs = objs,
                           !.expanded = Append(r.expanded, current),
                           !.pq = push_unvisited(r.seed, objs, visited,
                                                 r.pq, out.made, 1)]

\* lines 96-101 for the popped state current: mark it visited, generate its
\* neighbours and push those whose hash is not in visited
expand(r, current) ==
    LET cur == r.objs[current]
        visited == r.visited \cup {Hash(r.seed, cur)}
    IN  IF cur.empty_pos = NoPos
        THEN \* neighbors() unpacks empty_pos, which is None
             [r EXCEPT !.visited = visited,
                       !.pc = "crashed",
                       !.err = "TypeError"]
        ELSE LET nbs == neighbors(cur, current)
                 objs == r.objs \o nbs
             IN  [r EXCEPT !.visited = visited,
                           !.objs = objs,
                           !.expanded = Append(r.expanded, current),
                           !.pq = push_unvisited(r.seed, objs, visited,
                                                 r.pq, nbs, 1)]

\* the loop body with the goal test made after the expansion
loop_iter_late_goal(r) ==
    IF r.pq = << >>
    THEN [r EXCEPT !.pc = "done", !.result = ReturnNone]
    ELSE LET popped == heappop(r.objs, r.pq)
             current == popped.item[2]
             r1 == [r EXCEPT !.pq = popped.heap,
                             !.current = current,
                             !.pops = Append(r.pops, current)]
             r2 == expand(r1, current)
         IN  IF is_goal(r.objs[current])
             THEN [r2 EXCEPT !.pc = "done",
                             !.result = ReturnPath(
                                 reconstruct_path(r.objs, current))]
             ELSE r2

\* one evaluation of the while condition and, if it holds, of the loop body
loop_iter(r) ==
    IF r.pq = << >>
    THEN [r EXCEPT !.pc = "done", !.result = ReturnNone]
    ELSE LET popped == heappop(r.objs, r.pq)
             current == popped.item[2]
             r1 == [r EXCEPT !.pq = popped.heap,
                             !.current = current,
                             !.pops = Append(r.pops, current)]
         IN  IF is_goal(r.objs[current])
             THEN [r1 EXCEPT !.pc = "done",
                             !.result = ReturnPath(
                                 reconstruct_path(r.objs, current))]
             ELSE expand(r1, current)

(* -------------------------------- main --------------------------------- *)

\* The window state is the record of main()'s locals. The list object behind
\* puzzle_state.board is also solution[0] from a solve until the reset that
\* replaces puzzle_state (PuzzleState(puzzle_state.board) keeps the caller's
\* list and reconstruct_path returns it); shared records that aliasing.
\* screen is the last draw_board call, played the draws made while arranging
\* is False since the last solve, events the number of mouse clicks handled
\* and dropped the number of those that arrived while arranging was False.

\* the whole call of as_algo_solve on a state already pushed, followed for
\* at most MaxPops pops
RECURSIVE run_to_end(_)
run_to_end(r) ==
    IF r.pc # "loop" \/ Len(r.pops) >= MaxPops THEN r
    ELSE run_to_end(loop_iter(r))

get_tile_at_pos(pos) ==
    LET col == pos[1] \div 100
        row == pos[2] \div 100
    IN  IF 0 <= row /\ row < 3 /\ 0 <= col /\ col < 3
        THEN <<row, col>>
        ELSE NoPos

\* line 218: the click lies on the SOLVE button
solve_clicked(pos) ==
    230 <= pos[1] /\ pos[1] <= 330 /\ 310 <= pos[2] /\ pos[2] <= 350

NoScreen == [board |-> << >>, move_count |-> 0, button |-> FALSE]

\* lines 179-187
NewUI ==
    [pc |-> "running",
     original_board |-> Goal,
     puzzle_state |-> PuzzleState(Goal, 0, NoRef),
     arranging |-> TRUE,
     move_count |-> 0,
     solution |-> ReturnPath(<< >>),
     shared |-> FALSE,
     events |-> 0,
     dropped |-> 0,
     screen |-> NoScreen,
     played |-> << >>]

\* the click handler accepting the eight cells around the empty slot
click_swap_diagonal(u, pos) ==
    LET tile == get_tile_at_pos(pos)
        ps == u.puzzle_state
        empty_x == ps.empty_pos[1]
        empty_y == ps.empty_pos[2]
    IN  IF tile # NoPos
           /\ tile # ps.empty_pos
           /\ Abs(tile[1] - empty_x) <= 1
           /\ Abs(tile[2] - empty_y) <= 1
        THEN LET board == SwapCells(ps.board, empty_x, empty_y,
                                    tile[1], tile[2])
             IN  [u EXCEPT !.puzzle_state.board = board,
                           !.puzzle_state.empty_pos = tile,
                           !.solution =
                               IF u.shared
                               THEN ReturnPath([@.path EXCEPT ![1] = board])
                               ELSE @]
        ELSE u

\* the click handler without line 213: the cached position is not updated
click_swap_stale_cache(u, pos) ==
    LET tile == get_tile_at_pos(pos)
        ps == u.puzzle_state
        empty_x == ps.empty_pos[1]
        empty_y == ps.empty_pos[2]
    IN  IF tile # NoPos
           /\ Abs(tile[1] - empty_x) + Abs(tile[2] - empty_y) = 1
        THEN LET board == SwapCells(ps.board, empty_x, empty_y,
                                    tile[1], tile[2])
             IN  [u EXCEPT !.puzzle_state.board = board,
                           !.solution =
                               IF u.shared
                               THEN ReturnPath([@.path EXCEPT ![1] = board])
                               ELSE @]
        ELSE u

\* lines 200-213: the clicked tile changes places with the empty slot when it
\* is next to it; the list is changed in place, so a solution[0] that is the
\* same list changes with it
click_swap(u, pos) ==
    LET tile == get_tile_at_pos(pos)
        ps == u.puzzle_state
        empty_x == ps.empty_pos[1]
        empty_y == ps.empty_pos[2]
    IN  IF tile # NoPos
           /\ Abs(tile[1] - empty_x) + Abs(tile[2] - empty_y) = 1
        THEN LET board == SwapCells(ps.board, empty_x, empty_y,
                                    tile[1], tile[2])
             IN  [u EXCEPT !.puzzle_state.board = board,
                           !.puzzle_state.empty_pos = tile,
                           !.solution =
                               IF u.shared
                               THEN ReturnPath([@.path EXCEPT ![1] = board])
                               ELSE @]
        ELSE u

\* lines 219-227: the solve started by a click on SOLVE, run to its end
solve_click(u, seed) ==
    LET board == u.puzzle_state.board
        r == run_to_end(solve_start(construct(NewRun(seed), board)))
        u1 == [u EXCEPT !.arranging = FALSE, !.solution = r.result]
    IN  [input |-> board,
         run |-> r,
         ui |-> IF r.pc = "crashed" THEN [u1 EXCEPT !.pc = "crashed"]
                ELSE IF r.result.kind = "None" \/ r.result.path = << >>
                THEN [u1 EXCEPT !.pc = "no_solution"]
                ELSE [u1 EXCEPT !.move_count = 0,
                                !.shared = TRUE,
                                !.played = << >>]]

\* the mouse handler without the test of arranging at line 198
on_mouse_down_unguarded(u, r, inp, pos) ==
    LET u0 == [u EXCEPT !.events = @ + 1,
                        !.dropped = IF u.arranging THEN @ ELSE @ + 1]
        u1 == click_swap(u0, pos)
    IN  IF solve_clicked(pos)
        THEN solve_click(u1, r.seed)
        ELSE [input |-> inp, run |-> r, ui |-> u1]

\* lines 198-227 for one MOUSEBUTTONDOWN event at pos; r and inp are the last
\* solve and its board, replaced when this click starts a solve
on_mouse_down(u, r, inp, pos) ==
    LET u0 == [u EXCEPT !.events = @ + 1]
    IN  IF ~u.arranging
        THEN [input |-> inp, run |-> r,
              ui |-> [u0 EXCEPT !.dropped = @ + 1]]
        ELSE LET u1 == click_swap(u0, pos)
             IN  IF solve_clicked(pos)
                 THEN solve_click(u1, r.seed)
                 ELSE [input |-> inp, run |-> r, ui |-> u1]

Draw(board, move_count, button) ==
    [board |-> board, move_count |-> move_count, button |-> button]

\* the playback advancing two boards per drawing pass
frame_skipping(u) ==
    IF u.arranging
    THEN [u EXCEPT !.screen = Draw(u.puzzle_state.board, u.move_count, TRUE)]
    ELSE IF u.move_count < Len(u.solution.path)
    THEN LET shown == Draw(u.solution.path[u.move_count + 1],
                           u.move_count, FALSE)
         IN  [u EXCEPT !.screen = shown,
                       !.played = Append(@, shown),
                       !.move_count = @ + 2]
    ELSE IF u.move_count = Len(u.solution.path)
    THEN LET shown == Draw(u.original_board, u.move_count, FALSE)
         IN  [u EXCEPT !.screen = shown,
                       !.played = Append(@, shown),
                       !.arranging = TRUE,
                       !.puzzle_state = PuzzleState(u.original_board, 0, NoRef),
                       !.shared = FALSE]
    ELSE u

\* lines 229-249: the drawing half of one pass of the main loop
frame(u) ==
    IF u.arranging
    THEN [u EXCEPT !.screen = Draw(u.puzzle_state.board, u.move_count, TRUE)]
    ELSE IF u.move_count < Len(u.solution.path)
    THEN LET shown == Draw(u.solution.path[u.move_count + 1],
                           u.move_count, FALSE)
         IN  [u EXCEPT !.screen = shown,
                       !.played = Append(@, shown),
                       !.move_count = @ + 1]
    ELSE IF u.move_count = Len(u.solution.path)
    THEN LET shown == Draw(u.original_board, u.move_count, FALSE)
         IN  [u EXCEPT !.screen = shown,
                       !.played = Append(@, shown),
                       !.arranging = TRUE,
                       !.puzzle_state = PuzzleState(u.original_board, 0, NoRef),
                       !.shared = FALSE]
    ELSE u

\* pixels a click may land on: the middle of each tile, the SOLVE button at
\* (250, 330), and places off the grid beside and below it
ClickPositions == {50, 150, 250, 340} \X {50, 150, 250, 330}

(* ------------------------------ inputs --------------------------------- *)

\* the seeds two processes may draw for their string hashes
Seeds == {0, 1}

\* the boards one legal move away from b: the empty slot exchanged with a
\* tile above, below, left or right of it
OneMove(b) ==
    LET cells == (1..3) \X (1..3)
        slide(p, q) ==
            LET cell(i, j) == IF <<i, j>> = p THEN b[q[1]][q[2]]
                              ELSE IF <<i, j>> = q THEN b[p[1]][p[2]]
                              ELSE b[i][j]
                row(i) == <<cell(i, 1), cell(i, 2), cell(i, 3)>>
            IN  <<row(1), row(2), row(3)>>
    IN  { slide(pq[1], pq[2]) :
            pq \in { c \in cells \X cells :
                       /\ b[c[1][1]][c[1][2]] = 0
                       /\ Abs(c[1][1] - c[2][1]) + Abs(c[1][2] - c[2][2]) = 1 } }

\* breadth-first layers around the goal: Layers[d + 1] is the set of boards
\* whose shortest distance to the goal is exactly d moves
RECURSIVE bfs_layers(_, _, _)
bfs_layers(layers, seen, d) ==
    IF d >= MaxScramble THEN layers
    ELSE LET next == (UNION {OneMove(b) : b \in layers[Len(layers)]}) \ seen
         IN  bfs_layers(Append(layers, next), seen \cup next, d + 1)

Layers == bfs_layers(<<{Goal}>>, {Goal}, 0)

Solvable == UNION {Layers[k] : k \in 1..Len(Layers)}

Distance(b) == (CHOOSE k \in 1..Len(Layers) : b \in Layers[k]) - 1

\* valid boards of the other parity class: the goal cannot be reached
Unsolvable ==
    { << <<0, 2, 1>>, <<3, 4, 5>>, <<6, 7, 8>> >>,
      << <<0, 1, 2>>, <<3, 4, 5>>, <<6, 8, 7>> >> }

\* boards that are not an arrangement of 0..8: a value twice and another
\* missing, without and with an empty slot, and a value out of range
Invalid ==
    { << <<0, 1, 1>>, <<3, 4, 5>>, <<6, 7, 8>> >>,
      << <<1, 1, 2>>, <<3, 4, 5>>, <<6, 7, 8>> >>,
      << <<9, 1, 2>>, <<3, 4, 5>>, <<6, 7, 8>> >> }

IsValidBoard(b) ==
    \A v \in 0..8 :
        Cardinality({c \in (1..3) \X (1..3) : b[c[1]][c[2]] = v}) = 1

Inputs == Solvable \cup Unsolvable \cup Invalid

(* --------------------------- specifications ---------------------------- *)

Init ==
    /\ input \in Inputs
    /\ run \in {NewRun(seed) : seed \in Seeds}
    /\ twin = NewRun(0)
    /\ ui = NewUI

Construct ==
    /\ run.pc = "new"
    /\ run' = construct(run, input)
    /\ UNCHANGED <<input, twin, ui>>

SolveStart ==
    /\ run.pc = "constructed"
    /\ run' = solve_start(run)
    /\ UNCHANGED <<input, twin, ui>>

LoopIter ==
    /\ run.pc = "loop"
    /\ Len(run.pops) < MaxPops
    /\ run' = loop_iter(run)
    /\ UNCHANGED <<input, twin, ui>>

Next == Construct \/ SolveStart \/ LoopIter

Spec == Init /\ [][Next]_vars

\* two processes given the same board, each with its own hash seed, stepped
\* together
InitPair ==
    /\ input \in Inputs
    /\ run \in {NewRun(seed) : seed \in Seeds}
    /\ twin \in {NewRun(seed) : seed \in Seeds}
    /\ ui = NewUI

ConstructPair ==
    /\ run.pc = "new"
    /\ run' = construct(run, input)
    /\ twin' = construct(twin, input)
    /\ UNCHANGED <<input, ui>>

SolveStartPair ==
    /\ run.pc = "constructed"
    /\ run' = solve_start(run)
    /\ twin' = solve_start(twin)
    /\ UNCHANGED <<input, ui>>

LoopIterPair ==
    /\ run.pc = "loop"
    /\ twin.pc = "loop"
    /\ Len(run.pops) < MaxPops
    /\ run' = loop_iter(run)
    /\ twin' = loop_iter(twin)
    /\ UNCHANGED <<input, ui>>

NextPair == ConstructPair \/ SolveStartPair \/ LoopIterPair

SpecPair == InitPair /\ [][NextPair]_vars

\* the window: mouse clicks and window-close events arrive in any order
\* between the drawing passes of the main loop
InitUI ==
    /\ input = Goal
    /\ run \in {NewRun(seed) : seed \in Seeds}
    /\ twin = NewRun(0)
    /\ ui = NewUI

MouseDown ==
    /\ ui.pc = "running"
    /\ ui.events < MaxClicks
    /\ \E pos \in ClickPositions :
          LET out == on_mouse_down(ui, run, input, pos)
          IN  /\ out.run.pc # "loop"
              /\ ui' = out.ui
              /\ run' = out.run
              /\ input' = out.input
    /\ UNCHANGED twin

\* lines 193-195
Quit ==
    /\ ui.pc = "running"
    /\ ui' = [ui EXCEPT !.pc = "quit"]
    /\ UNCHANGED <<input, run, twin>>

Frame ==
    /\ ui.pc = "running"
    /\ ui' = frame(ui)
    /\ UNCHANGED <<input, run, twin>>

NextUI == MouseDown \/ Quit \/ Frame

SpecUI == InitUI /\ [][NextUI]_vars

\* a session in which the window is not closed; the main loop never stops
\* making its drawing pass
NextPlay == MouseDown \/ Frame

SpecPlay == InitUI /\ [][NextPlay]_vars /\ WF_vars(Frame)

(* ------------------------------ claims --------------------------------- *)

Done == run.pc = "done"

Path == run.result.path

Board(k) == run.objs[k].board

H(k) == manhattan_distance(run.objs[k])

\* C1: for a board reachable from the goal the call returns a sequence whose
\* length minus one is the breadth-first distance of the board to the goal;
\* for [[1,0,2],[3,4,5],[6,7,8]] it is exactly that board and the goal.
C1_ShortestPath ==
    /\ (Done /\ input \in Solvable) => Len(Path) - 1 = Distance(input)
    /\ (Done /\ input = << <<1, 0, 2>>, <<3, 4, 5>>, <<6, 7, 8>> >>)
          => Path = <<input, Goal>>

C1_Witness ==
    /\ Done
    /\ input \in Solvable
    /\ Distance(input) >= 5
    /\ Len(Path) - 1 = Distance(input)
    /\ Len(run.expanded) > Distance(input)

\* C2: for a board reachable from the goal the call returns a sequence, not
\* None, that starts with the board given and ends with the goal board.
C2_PathEndpoints ==
    /\ (run.pc = "loop" /\ input \in Solvable) => run.pq # << >>
    /\ (Done /\ input \in Solvable)
          => /\ run.result.kind = "path"
             /\ Path # << >>
             /\ Path[1] = input
             /\ Path[Len(Path)] = Goal

C2_Witness ==
    /\ Done
    /\ input \in Solvable
    /\ input # Goal
    /\ run.result.kind = "path"
    /\ Path[1] = input
    /\ Path[Len(Path)] = Goal

\* C3: consecutive boards of a returned sequence differ by one exchange of
\* the empty slot with a tile directly above, below, left or right of it.
C3_OneSwapPerStep ==
    (Done /\ run.result.kind = "path")
        => \A k \in 1..(Len(Path) - 1) : Path[k + 1] \in OneMove(Path[k])

C3_Witness ==
    /\ Done
    /\ run.result.kind = "path"
    /\ Len(Path) >= 4
    /\ \A k \in 1..(Len(Path) - 1) : Path[k + 1] \in OneMove(Path[k])

\* C5: constructing a state from a board that is not an arrangement of 0..8
\* fails with InvalidBoardError: no state exists and no search starts.
C5_InvalidBoardRejected ==
    (run.pc # "new" /\ ~IsValidBoard(input))
        => /\ run.err = "InvalidBoardError"
           /\ run.objs = << >>
           /\ run.pc \notin {"loop", "done"}

\* what a call does and returns, apart from the hash values it stores
Observed(r) ==
    [pc |-> r.pc, objs |-> r.objs, initial |-> r.initial, pq |-> r.pq,
     current |-> r.current, pops |-> r.pops, expanded |-> r.expanded,
     result |-> r.result, err |-> r.err]

\* C6: two calls on the same board make the same pops and pushes in the same
\* order, also among entries of equal priority, and return the same path.
C6_SameRun == Observed(run) = Observed(twin)

C6_Witness ==
    /\ run.seed # twin.seed
    /\ run.visited # twin.visited
    /\ Len(run.pops) >= 3
    /\ \E i, j \in 1..Len(run.pq) : i < j /\ run.pq[i][1] = run.pq[j][1]
    /\ Observed(run) = Observed(twin)

\* C7: on the goal board the call returns the one-element sequence holding
\* the goal board and expands no state.
C7_GoalAtStart ==
    (Done /\ input = Goal)
        => /\ run.result = ReturnPath(<<Goal>>)
           /\ run.expanded = << >>
           /\ Len(run.objs) = 1

C7_Witness ==
    /\ Done
    /\ input = Goal
    /\ run.pops = <<run.initial>>
    /\ run.result = ReturnPath(<<Goal>>)

\* C8: the heuristic is 0 on the goal, never negative, and differs by at
\* most 1 between a valid state and each successor neighbors() gives it.
C8_HeuristicStep ==
    /\ manhattan_distance(PuzzleState(Goal, 0, NoRef)) = 0
    /\ IsValidBoard(input)
          => \A k \in 1..Len(run.objs) :
                /\ H(k) >= 0
                /\ is_goal(run.objs[k]) => H(k) = 0
                /\ run.objs[k].prev # NoRef
                      => Abs(H(k) - H(run.objs[k].prev)) <= 1

C8_Witness ==
    /\ IsValidBoard(input)
    /\ \E k \in 1..Len(run.objs) :
          run.objs[k].prev # NoRef /\ H(k) = H(run.objs[k].prev) + 1
    /\ \E k \in 1..Len(run.objs) :
          run.objs[k].prev # NoRef /\ H(k) = H(run.objs[k].prev) - 1
    /\ \E k \in 1..Len(run.objs) : is_goal(run.objs[k]) /\ H(k) = 0

\* C9: the heuristic never exceeds the breadth-first distance to the goal of
\* a board reachable from the goal.
C9_Admissible ==
    \A k \in 1..Len(run.objs) :
        Board(k) \in Solvable => H(k) <= Distance(Board(k))

C9_Witness ==
    \E k \in 1..Len(run.objs) :
        /\ Board(k) \in Solvable
        /\ H(k) > 0
        /\ H(k) < Distance(Board(k))

\* C10: within one call no board is expanded twice: a popped entry whose
\* board was expanded before is skipped.
C10_ExpandedOnce ==
    \A i, j \in 1..Len(run.expanded) :
        i < j => Board(run.expanded[i]) # Board(run.expanded[j])

F(k) == run.objs[k].moves + H(k)

\* C11 as claimed: every entry in the frontier, the seed entry included,
\* carries the priority moves + manhattan_distance of its state.
C11_PriorityIsF ==
    \A i \in 1..Len(run.pq) : run.pq[i][1] = F(run.pq[i][2])

\* C11: every entry pushed for a successor carries the priority moves +
\* manhattan_distance of its state; the seed entry of the initial state
\* carries the priority 0.
C11_PriorityIsFButSeed ==
    \A i \in 1..Len(run.pq) :
        IF run.pq[i][2] = run.initial
        THEN run.pq[i][1] = 0
        ELSE run.pq[i][1] = F(run.pq[i][2])

C11_Witness ==
    /\ run.pc = "loop"
    /\ H(run.initial) > 0
    /\ Len(run.pops) >= 2
    /\ Len(run.pq) >= 3
    /\ \A i \in 1..Len(run.pq) : run.pq[i][1] = F(run.pq[i][2])
    /\ \E i \in 1..Len(run.pq) : run.objs[run.pq[i][2]].moves >= 2

\* the cell of the empty slot of a valid board, rows and columns from 1
EmptyCell(b) == CHOOSE c \in (1..3) \X (1..3) : b[c[1]][c[2]] = 0

\* b with the contents of the cells p and q exchanged
Exchanged(b, p, q) ==
    LET cell(i, j) == IF <<i, j>> = p THEN b[q[1]][q[2]]
                      ELSE IF <<i, j>> = q THEN b[p[1]][p[2]]
                      ELSE b[i][j]
        row(i) == <<cell(i, 1), cell(i, 2), cell(i, 3)>>
    IN  <<row(1), row(2), row(3)>>

\* the boards a valid board b must give: up, down, left, right of the empty
\* slot, leaving out the cells off the grid
ExpectedBoards(b) ==
    LET p == EmptyCell(b)
        to(q) == IF q \in (1..3) \X (1..3)
                 THEN <<Exchanged(b, p, q)>> ELSE << >>
    IN  to(<<p[1] - 1, p[2]>>) \o to(<<p[1] + 1, p[2]>>)
            \o to(<<p[1], p[2] - 1>>) \o to(<<p[1], p[2] + 1>>)

\* 2 in a corner, 3 on an edge, 4 in the centre
ExpectedCount(b) ==
    LET p == EmptyCell(b)
    IN  (IF p[1] = 2 THEN 2 ELSE 1) + (IF p[2] = 2 THEN 2 ELSE 1)

\* the references of the states whose prev is e, in allocation order
RECURSIVE made_from(_, _, _)
made_from(objs, e, k) ==
    IF k > Len(objs) THEN << >>
    ELSE (IF objs[k].prev = e THEN <<k>> ELSE << >>)
             \o made_from(objs, e, k + 1)

RECURSIVE sum_counts(_)
sum_counts(n) ==
    IF n = 0 THEN 0
    ELSE ExpectedCount(Board(run.expanded[n])) + sum_counts(n - 1)

\* C12: neighbors() of a valid state gives, in the order up, down, left,
\* right, one state per direction that stays on the grid (2, 3 or 4 of
\* them), each with the empty slot and the target tile exchanged, moves one
\* higher and prev the receiver; it gives nothing else.
C12_Neighbors ==
    (IsValidBoard(input) /\ run.pc # "new")
        => /\ Len(run.objs) = 1 + sum_counts(Len(run.expanded))
           /\ \A i \in 1..Len(run.expanded) :
                 LET e == run.expanded[i]
                     made == made_from(run.objs, e, 1)
                     want == ExpectedBoards(Board(e))
                 IN  /\ Len(made) = ExpectedCount(Board(e))
                     /\ Len(want) = Len(made)
                     /\ \A j \in 1..Len(made) :
                           /\ Board(made[j]) = want[j]
                           /\ run.objs[made[j]].moves = run.objs[e].moves + 1
                           /\ j > 1 => made[j] = made[j - 1] + 1

C12_Witness ==
    /\ IsValidBoard(input)
    /\ \E i \in 1..Len(run.expanded) :
          ExpectedCount(Board(run.expanded[i])) = 2
    /\ \E i \in 1..Len(run.expanded) :
          ExpectedCount(Board(run.expanded[i])) = 3
    /\ \E i \in 1..Len(run.expanded) :
          /\ ExpectedCount(Board(run.expanded[i])) = 4
          /\ Len(made_from(run.objs, run.expanded[i], 1)) = 4

\* C13: a step of the search changes no state that exists: board, moves,
\* prev and empty_pos of every state constructed so far stay as they were.
C13_StatesFrozen ==
    [][\A k \in 1..Len(run.objs) :
          /\ Len(run.objs') >= k
          /\ run.objs'[k] = run.objs[k]]_vars

C13_Witness ==
    /\ Len(run.expanded) >= 3
    /\ Len(run.pq) >= 2
    /\ \A k \in 1..Len(run.objs) :
          run.objs[k].empty_pos = find_empty(run.objs[k].board)

\* C14: moves of every state reached is the number of prev links back to
\* the initial state, and a returned path has moves + 1 boards, from the
\* initial board to the board of the state it is reconstructed from.
C14_MovesCountLinks ==
    /\ \A k \in 1..Len(run.objs) :
          LET walk == path_walk(run.objs, k)
          IN  /\ Len(walk) = run.objs[k].moves + 1
              /\ walk[Len(walk)] = Board(run.initial)
    /\ (Done /\ run.result.kind = "path")
          => /\ Len(Path) = run.objs[run.current].moves + 1
             /\ Path[1] = Board(run.initial)
             /\ Path[Len(Path)] = Board(run.current)

C14_Witness ==
    /\ Done
    /\ run.result.kind = "path"
    /\ run.objs[run.current].moves >= 4
    /\ Len(Path) = run.objs[run.current].moves + 1

UIBoard == ui.puzzle_state.board

Playing == ui.pc = "running" /\ ~ui.arranging

\* the boards drawn while arranging was False since the last solve
RECURSIVE boards_of(_)
boards_of(draws) ==
    IF draws = << >> THEN << >>
    ELSE <<Head(draws).board>> \o boards_of(Tail(draws))

\* C15: after any clicks the window's board is a permutation of 0..8 that
\* legal moves reach from the goal, a step changes it only by one legal move
\* (or by the reset to the goal after a playback), and no solve started from
\* the window returns the no-solution result.
C15_WindowBoardSolvable ==
    /\ [](/\ IsValidBoard(UIBoard)
          /\ UIBoard \in Solvable
          /\ ui.pc \notin {"no_solution", "crashed"}
          /\ run.pc # "new" => (run.pc = "done" /\ run.result.kind = "path"))
    /\ [][\/ ui'.puzzle_state.board = UIBoard
          \/ /\ ui.arranging
             /\ ui'.events = ui.events + 1
             /\ ui'.puzzle_state.board \in OneMove(UIBoard)
          \/ /\ ~ui.arranging
             /\ ui'.arranging
             /\ ui'.puzzle_state.board = Goal]_vars

C15_Witness ==
    /\ Playing
    /\ run.pc = "done"
    /\ run.result.kind = "path"
    /\ input = UIBoard
    /\ Distance(input) >= 3

\* C16: every board drawn during a playback carries the number of moves
\* made up to it: the i-th draw carries i - 1, and no draw carries more than
\* the number of moves of the solution.
C16_CounterIsMovesMade ==
    \A i \in 1..Len(ui.played) :
        /\ ui.played[i].move_count = i - 1
        /\ ui.played[i].move_count <= Len(ui.solution.path) - 1

\* C17: after SOLVE the window draws the boards of the solution in their
\* order, each once, and then returns to arranging with the goal board.
C17_PlaybackInOrder ==
    /\ [](Playing =>
            /\ Len(ui.played) = ui.move_count
            /\ ui.move_count <= Len(ui.solution.path)
            /\ boards_of(ui.played)
                 = SubSeq(ui.solution.path, 1, ui.move_count))
    /\ (Playing ~>
            /\ ui.arranging
            /\ UIBoard = Goal
            /\ Len(ui.played) = Len(ui.solution.path) + 1
            /\ SubSeq(boards_of(ui.played), 1, Len(ui.solution.path))
                 = ui.solution.path)

C17_Witness ==
    /\ ui.arranging
    /\ UIBoard = Goal
    /\ Len(ui.solution.path) >= 4
    /\ Len(ui.played) = Len(ui.solution.path) + 1
    /\ SubSeq(boards_of(ui.played), 1, Len(ui.solution.path))
         = ui.solution.path

\* C18: a mouse click handled while arranging is False changes neither the
\* board, nor the solution, nor the place of the playback, and starts no
\* solve.
C18_ClicksIgnoredInPlayback ==
    [][(~ui.arranging /\ ui'.events # ui.events)
          => /\ ui'.puzzle_state = ui.puzzle_state
             /\ ui'.solution = ui.solution
             /\ ui'.move_count = ui.move_count
             /\ ui'.played = ui.played
             /\ ui'.arranging = ui.arranging
             /\ ui'.pc = ui.pc
             /\ run' = run
             /\ input' = input]_vars

C18_Witness ==
    /\ Playing
    /\ ui.dropped >= 2
    /\ ui.move_count > 0
    /\ ui.move_count < Len(ui.solution.path)

CachedEmptyOk(s) ==
    /\ s.empty_pos # NoPos
    /\ Cell(s.board, s.empty_pos[1], s.empty_pos[2]) = 0

\* C19: the cached empty position of the window's state and of every state
\* the constructor or neighbors() made names a cell holding 0.
C19_CachedEmpty ==
    /\ CachedEmptyOk(ui.puzzle_state)
    /\ \A k \in 1..Len(run.objs) : CachedEmptyOk(run.objs[k])

C19_Witness ==
    /\ ui.arranging
    /\ ui.played # << >>
    /\ UIBoard # Goal
    /\ Len(run.objs) >= 4
    /\ CachedEmptyOk(ui.puzzle_state)
    /\ ui.puzzle_state.empty_pos # <<0, 0>>

====
